---- MODULE Spec2Model ----
(***************************************************************************)
(* Model of the PublicServerScanner workers: the polling worker of         *)
(* scan_worker.py (get_queued_scans / process_scan / main) and the Celery  *)
(* task of tasks.py (execute_scan) with its helpers in database.py, both   *)
(* working on the scan_jobs and scan_results tables.                       *)
(***************************************************************************)
EXTENDS Integers, Sequences, FiniteSets, TLC

\* ------------------------------------------------------------------ bounds
NumJobs == 2
NumWorkers == 2
MaxChecks == 2
MaxFaults == 1
MaxFindings == 21
MaxTotal == 13

Jobs == 1..NumJobs
Workers == 1..NumWorkers
NoJob == 0
NoWorker == 0

\* ------------------------------------------------------- check registry
\* the keys of check_map / check_functions that the model distinguishes,
\* and one name that is in neither map
KnownChecks == {"ping"}
CheckNames == KnownChecks \cup {"unknown_check"}

\* what a call check_func(target, config) can do: return its dict, or raise
Returned(st, f, sev) == [raised |-> FALSE, status |-> st, findings |-> f, severity |-> sev]
Raised == [raised |-> TRUE, status |-> "none", findings |-> 0, severity |-> "none"]
\* (ping.py: the unreachable-target dict, the except-Exception dict)
AdapterOutcomes ==
    { Returned("success", 1, "high"),
      Returned("failed", 0, "info"),
      Raised }

NoResult == [status |-> "none", findings |-> 0, severity |-> "none"]

\* history entry for a position whose name is in no map: no adapter is called
NotCalled == [raised |-> FALSE, status |-> "notcalled", findings |-> 0, severity |-> "none"]
Called(check_name, outcome) == IF check_name \in KnownChecks THEN outcome ELSE NotCalled
NoCall == [adapter |-> "none", env |-> <<>>, out |-> NoResult]

\* off by one: the percentage of the check after the one just processed
Percent_next(k, total) == ((k + 1) * 100) \div total

\* int((k / total) * 100); the float product equals the integer quotient
\* for every total below 50
Percent(k, total) == (k * 100) \div total

\* all check lists of length 1..MaxChecks
RECURSIVE ListsOfLen(_)
ListsOfLen(n) ==
    IF n = 0 THEN { <<>> }
    ELSE { Append(s, c) : s \in ListsOfLen(n - 1), c \in CheckNames }
CheckLists == UNION { ListsOfLen(n) : n \in 1..MaxChecks }

\* ------------------------------------------------------------------ state
VARIABLES
    deploy,         \* which executor processes run: "poll" or "celery"
    scan_jobs,      \* table scan_jobs: job id -> row
    scan_results,   \* table scan_results: job id -> rows in insertion order
    lock,           \* row lock of scan_jobs held by an open transaction
    now,            \* per-row logical time of NOW()
    pc,             \* polling worker: position in main / process_scan
    scan,           \* polling worker: scan_id of scan_data
    idx,            \* polling worker: i of enumerate(checks)
    result,         \* polling worker: result of execute_check
    queue,          \* broker: scan ids with an execute_scan message waiting
    cpc,            \* celery worker: position in execute_scan
    ctask,          \* celery worker: scan_id of the running task
    cpos,           \* celery worker: position of the for loop in checks
    completed_checks, \* celery worker: completed_checks
    cresult,        \* celery worker: arguments of the pending store_scan_result
    handed,         \* history: times get_queued_scans returned the job
    progHist,       \* history: progress values written after a check
    outcomes,       \* history: what the adapter did at each position of the list
    sigint,         \* history: the worker received KeyboardInterrupt
    lostRun,        \* history: the job's worker process died while it was running
    faults,           \* number of errors, stop signals and crashes injected so far
    cur,            \* adapter call under test: adapter, environment, result
    prev,           \* the adapter call before it
    pct,            \* progress arithmetic under test: completed, total, progress
    lastJob         \* history: the job each worker claimed last

vars == <<deploy, scan_jobs, scan_results, lock, now, pc, scan, idx, result,
          queue, cpc, ctask, cpos, completed_checks, cresult, handed, progHist,
          outcomes, sigint, lostRun, faults, cur, prev, pct, lastJob>>

pollVars == <<pc, scan, idx, result, lock, handed>>
celeryVars == <<queue, cpc, ctask, cpos, completed_checks, cresult>>
faultVars == <<sigint, lostRun, faults>>
histVars == <<lastJob>>
pureVars == <<cur, prev, pct>>

\* ------------------------------------------------------- scan_worker.py
\* the query without FOR UPDATE SKIP LOCKED: locked rows are returned too
get_queued_scans_nolock(rows, locks) ==
    LET cand == { j \in Jobs : rows[j].status = "queued" }
    IN  IF cand = {} THEN NoJob
        ELSE CHOOSE j \in cand : \A k \in cand : rows[j].created_at <= rows[k].created_at

\* LIMIT 1 taken before the lock test: a locked oldest row yields no row
get_queued_scans_limit_first(rows, locks) ==
    LET cand == { j \in Jobs : rows[j].status = "queued" }
        first == CHOOSE j \in cand : \A k \in cand : rows[j].created_at <= rows[k].created_at
    IN  IF cand = {} THEN NoJob
        ELSE IF locks[first] = NoWorker THEN first ELSE NoJob

\* the query without WHERE status = 'queued': running rows are returned too
get_queued_scans_any_status(rows, locks) ==
    LET cand == { j \in Jobs : rows[j].status \in {"queued", "running"} /\ locks[j] = NoWorker }
    IN  IF cand = {} THEN NoJob
        ELSE CHOOSE j \in cand : \A k \in cand : rows[j].created_at <= rows[k].created_at

\* ORDER BY id instead of ORDER BY created_at
get_queued_scans_by_id(rows, locks) ==
    LET cand == { j \in Jobs : rows[j].status = "queued" /\ locks[j] = NoWorker }
    IN  IF cand = {} THEN NoJob
        ELSE CHOOSE j \in cand : \A k \in cand : j <= k

\* SELECT ... WHERE status = 'queued' ORDER BY created_at ASC LIMIT 1
\* FOR UPDATE SKIP LOCKED: the oldest queued row no transaction has locked
get_queued_scans(rows, locks) ==
    LET cand == { j \in Jobs : rows[j].status = "queued" /\ locks[j] = NoWorker }
    IN  IF cand = {} THEN NoJob
        ELSE CHOOSE j \in cand : \A k \in cand : rows[j].created_at <= rows[k].created_at

\* `progress or 0`
OrZero(progress) == IF progress = -1 THEN 0 ELSE progress

\* the 'running' branch without started_at = NOW()
update_scan_status_nostamp(row, status, progress, t) ==
    IF status = "running"
    THEN [row EXCEPT !.status = status, !.progress = OrZero(progress)]
    ELSE IF status = "completed"
    THEN [row EXCEPT !.status = status, !.progress = 100, !.completed_at = t]
    ELSE IF status = "failed"
    THEN [row EXCEPT !.status = status, !.completed_at = t]
    ELSE [row EXCEPT !.status = status, !.progress = OrZero(progress)]

\* update_scan_status(conn, scan_id, status, progress); progress -1 is None
update_scan_status(row, status, progress, t) ==
    IF status = "running"
    THEN [row EXCEPT !.status = status, !.progress = OrZero(progress), !.started_at = t]
    ELSE IF status = "completed"
    THEN [row EXCEPT !.status = status, !.progress = 100, !.completed_at = t]
    ELSE IF status = "failed"
    THEN [row EXCEPT !.status = status, !.completed_at = t]
    ELSE [row EXCEPT !.status = status, !.progress = OrZero(progress)]

\* execute_check(check_name, target), given what the adapter does when called
execute_check(check_name, outcome) ==
    IF check_name \notin KnownChecks
    THEN [status |-> "error", findings |-> 0, severity |-> "info"]
    ELSE IF outcome.raised
    THEN [status |-> "error", findings |-> 0, severity |-> "info"]
    ELSE [status |-> outcome.status, findings |-> outcome.findings,
          severity |-> outcome.severity]

\* a loop that breaks off when a check did not succeed
AfterCheck_abort(i, total, res) ==
    IF res.status \in {"failed", "error"} THEN total ELSE i + 1

\* a loop that steps over the element after the one just processed
AfterCheck_skip(i, total, res) == i + 2

\* `for ... in checks`: the loop goes on to the next element whatever the
\* result of the check just processed
AfterCheck(i, total, res) == i + 1

\* the row save_scan_result inserts
save_scan_result(check_type, res) ==
    [check_type |-> check_type, status |-> res.status,
     findings |-> res.findings, severity |-> res.severity]

\* an insert whose transaction is never committed
InsertCommitted_nocommit(rows, row) == rows

\* save_scan_result: cursor.execute(INSERT ...) followed by conn.commit():
\* the row is durable when the call returns
InsertCommitted(rows, row) == Append(rows, row)

\* the lookup without the `if not result` test
TargetResolved_unchecked(row) == TRUE

\* process_scan, "Determine target URL": row.target is "resolved" when url is
\* set or the targets row exists, "missing" when the lookup returns no row
TargetResolved(row) == row.target = "resolved"

\* main: get_db_connection, get_queued_scans
GetQueuedScans(w) ==
    /\ deploy = "poll"
    /\ pc[w] = "poll"
    /\ LET j == get_queued_scans(scan_jobs, lock) IN
       IF j # NoJob
       THEN /\ pc' = [pc EXCEPT ![w] = "process"]
            /\ scan' = [scan EXCEPT ![w] = j]
            /\ lock' = [lock EXCEPT ![j] = w]
            /\ handed' = [handed EXCEPT ![j] = @ + 1]
       ELSE /\ pc' = [pc EXCEPT ![w] = "sleep5"]
            /\ UNCHANGED <<scan, lock, handed>>
    /\ UNCHANGED <<deploy, scan_jobs, scan_results, now, idx, result, progHist>>
    /\ UNCHANGED celeryVars
    /\ UNCHANGED <<outcomes, faultVars, pureVars>>
    /\ lastJob' = [lastJob EXCEPT ![w] = IF get_queued_scans(scan_jobs, lock) # NoJob
                                      THEN get_queued_scans(scan_jobs, lock) ELSE @]

\* main: time.sleep(5); conn.close()
Sleep(w) ==
    /\ pc[w] = "sleep5"
    /\ pc' = [pc EXCEPT ![w] = "poll"]
    /\ UNCHANGED <<deploy, scan_jobs, scan_results, lock, now, scan, idx, result,
                   handed, progHist>>
    /\ UNCHANGED celeryVars
    /\ UNCHANGED <<outcomes, faultVars, pureVars>>
    /\ UNCHANGED histVars

\* process_scan up to the first commit: target lookup, then status failed
\* (target not found) or running with progress 0
StartScan(w) ==
    /\ pc[w] = "process"
    /\ LET j == scan[w] IN
       /\ IF TargetResolved(scan_jobs[j])
          THEN /\ scan_jobs' = [scan_jobs EXCEPT
                      ![j] = update_scan_status(@, "running", 0, now[j])]
               /\ pc' = [pc EXCEPT ![w] = "loop"]
               /\ idx' = [idx EXCEPT ![w] = 0]
               /\ scan' = scan
          ELSE /\ scan_jobs' = [scan_jobs EXCEPT
                      ![j] = update_scan_status(@, "failed", -1, now[j])]
               /\ pc' = [pc EXCEPT ![w] = "poll"]
               /\ scan' = [scan EXCEPT ![w] = NoJob]
               /\ idx' = idx
       /\ lock' = [lock EXCEPT ![j] = NoWorker]
       /\ now' = [now EXCEPT ![j] = @ + 1]
    /\ UNCHANGED <<deploy, scan_results, result, handed, progHist>>
    /\ UNCHANGED celeryVars
    /\ UNCHANGED <<outcomes, faultVars, pureVars>>
    /\ UNCHANGED histVars

\* process_scan: result = execute_check(check_name, target)
ExecuteCheck(w) ==
    /\ pc[w] = "loop"
    /\ idx[w] < Len(scan_jobs[scan[w]].checks)
    /\ \E outcome \in AdapterOutcomes :
         /\ result' = [result EXCEPT
                ![w] = execute_check(scan_jobs[scan[w]].checks[idx[w] + 1], outcome)]
         /\ outcomes' = [outcomes EXCEPT ![scan[w]] =
                Append(@, Called(scan_jobs[scan[w]].checks[idx[w] + 1], outcome))]
    /\ pc' = [pc EXCEPT ![w] = "save"]
    /\ UNCHANGED <<deploy, scan_jobs, scan_results, lock, now, scan, idx,
                   handed, progHist>>
    /\ UNCHANGED celeryVars
    /\ UNCHANGED <<faultVars, pureVars>>
    /\ UNCHANGED histVars

\* process_scan: save_scan_result(...)
SaveScanResult(w) ==
    /\ pc[w] = "save"
    /\ LET j == scan[w] IN
       scan_results' = [scan_results EXCEPT
           ![j] = InsertCommitted(@,
                      save_scan_result(scan_jobs[j].checks[idx[w] + 1], result[w]))]
    /\ pc' = [pc EXCEPT ![w] = "progress"]
    /\ UNCHANGED <<deploy, scan_jobs, lock, now, scan, idx, result, handed, progHist>>
    /\ UNCHANGED celeryVars
    /\ UNCHANGED <<outcomes, faultVars, pureVars>>
    /\ UNCHANGED histVars

\* process_scan: progress = int(((i + 1) / total_checks) * 100);
\* update_scan_status(conn, scan_id, 'running', progress)
UpdateProgress(w) ==
    /\ pc[w] = "progress"
    /\ LET j == scan[w]
           progress == Percent(idx[w] + 1, Len(scan_jobs[j].checks))
       IN  /\ scan_jobs' = [scan_jobs EXCEPT
                  ![j] = update_scan_status(@, "running", progress, now[j])]
           /\ now' = [now EXCEPT ![j] = @ + 1]
           /\ progHist' = [progHist EXCEPT ![j] = Append(@, scan_jobs'[j].progress)]
    /\ idx' = [idx EXCEPT ![w] = AfterCheck(@, Len(scan_jobs[scan[w]].checks), result[w])]
    /\ result' = [result EXCEPT ![w] = NoResult]
    /\ pc' = [pc EXCEPT ![w] = "loop"]
    /\ UNCHANGED <<deploy, scan_results, lock, scan, handed>>
    /\ UNCHANGED celeryVars
    /\ UNCHANGED <<outcomes, faultVars, pureVars>>
    /\ UNCHANGED histVars

\* process_scan: update_scan_status(conn, scan_id, 'completed'); main: conn.close()
CompleteScan(w) ==
    /\ pc[w] = "loop"
    /\ idx[w] = Len(scan_jobs[scan[w]].checks)
    /\ LET j == scan[w] IN
       /\ scan_jobs' = [scan_jobs EXCEPT
              ![j] = update_scan_status(@, "completed", -1, now[j])]
       /\ now' = [now EXCEPT ![j] = @ + 1]
    /\ pc' = [pc EXCEPT ![w] = "poll"]
    /\ scan' = [scan EXCEPT ![w] = NoJob]
    /\ idx' = [idx EXCEPT ![w] = 0]
    /\ UNCHANGED <<deploy, scan_results, lock, result, handed, progHist>>
    /\ UNCHANGED celeryVars
    /\ UNCHANGED <<outcomes, faultVars, pureVars>>
    /\ UNCHANGED histVars

\* ------------------------------------------------- database.py / tasks.py
\* database.update_scan_status(scan_id, status, completed_at); t = 0 is None
db_update_scan_status(row, status, completed_at, t) ==
    IF completed_at # 0
    THEN [row EXCEPT !.status = status, !.completed_at = completed_at]
    ELSE IF status = "running"
    THEN [row EXCEPT !.status = status, !.started_at = t]
    ELSE [row EXCEPT !.status = status]

\* database.update_scan_progress(scan_id, progress)
update_scan_progress(row, progress) == [row EXCEPT !.progress = progress]

\* the row database.store_scan_result inserts
store_scan_result(check_type, status, findings, severity) ==
    [check_type |-> check_type, status |-> status,
     findings |-> findings, severity |-> severity]

\* execute_scan, body of the for loop: `if check_name not in check_functions`
InCheckFunctions(check_name) == check_name \in KnownChecks

\* execute_scan, inner try/except: the arguments of store_scan_result after
\* check_functions[check_name](target, config) returned or raised
task_check_result(outcome) ==
    IF outcome.raised
    THEN [status |-> "failed", findings |-> 0, severity |-> "info"]
    ELSE [status |-> "success", findings |-> outcome.findings,
          severity |-> outcome.severity]

\* the worker takes an execute_scan message from the broker
ReceiveTask ==
    /\ deploy = "celery"
    /\ cpc = "idle"
    /\ \E j \in queue :
         /\ queue' = queue \ {j}
         /\ ctask' = j
    /\ cpc' = "start"
    /\ UNCHANGED <<cpos, completed_checks, cresult>>
    /\ UNCHANGED <<deploy, scan_jobs, scan_results, now, progHist>>
    /\ UNCHANGED pollVars
    /\ UNCHANGED <<outcomes, faultVars, pureVars>>
    /\ UNCHANGED histVars

\* execute_scan: update_scan_status(scan_id, 'running')
TaskStart ==
    /\ cpc = "start"
    /\ scan_jobs' = [scan_jobs EXCEPT
           ![ctask] = db_update_scan_status(@, "running", 0, now[ctask])]
    /\ now' = [now EXCEPT ![ctask] = @ + 1]
    /\ cpc' = "progress0"
    /\ UNCHANGED <<queue, ctask, cpos, completed_checks, cresult>>
    /\ UNCHANGED <<deploy, scan_results, progHist>>
    /\ UNCHANGED pollVars
    /\ UNCHANGED <<outcomes, faultVars, pureVars>>
    /\ UNCHANGED histVars

\* execute_scan: update_scan_progress(scan_id, 0); completed_checks = 0
TaskProgressZero ==
    /\ cpc = "progress0"
    /\ scan_jobs' = [scan_jobs EXCEPT ![ctask] = update_scan_progress(@, 0)]
    /\ completed_checks' = 0
    /\ cpos' = 0
    /\ cpc' = "loop"
    /\ UNCHANGED <<queue, ctask, cresult>>
    /\ UNCHANGED <<deploy, scan_results, now, progHist>>
    /\ UNCHANGED pollVars
    /\ UNCHANGED <<outcomes, faultVars, pureVars>>
    /\ UNCHANGED histVars

\* execute_scan: unknown check name, logger.warning and continue
TaskSkipUnknown ==
    /\ cpc = "loop"
    /\ cpos < Len(scan_jobs[ctask].checks)
    /\ ~InCheckFunctions(scan_jobs[ctask].checks[cpos + 1])
    /\ cpos' = cpos + 1
    /\ outcomes' = [outcomes EXCEPT ![ctask] = Append(@, NotCalled)]
    /\ UNCHANGED <<queue, cpc, ctask, completed_checks, cresult>>
    /\ UNCHANGED <<deploy, scan_jobs, scan_results, now, progHist>>
    /\ UNCHANGED pollVars
    /\ UNCHANGED <<faultVars, pureVars>>
    /\ UNCHANGED histVars

\* execute_scan: result = check_functions[check_name](target, config)
TaskRunCheck ==
    /\ cpc = "loop"
    /\ cpos < Len(scan_jobs[ctask].checks)
    /\ InCheckFunctions(scan_jobs[ctask].checks[cpos + 1])
    /\ \E outcome \in AdapterOutcomes :
         /\ cresult' = task_check_result(outcome)
         /\ outcomes' = [outcomes EXCEPT ![ctask] = Append(@, outcome)]
    /\ cpc' = "store"
    /\ UNCHANGED <<queue, ctask, cpos, completed_checks>>
    /\ UNCHANGED <<deploy, scan_jobs, scan_results, now, progHist>>
    /\ UNCHANGED pollVars
    /\ UNCHANGED <<faultVars, pureVars>>
    /\ UNCHANGED histVars

\* execute_scan: store_scan_result(...)
TaskStoreResult ==
    /\ cpc = "store"
    /\ scan_results' = [scan_results EXCEPT
           ![ctask] = Append(@, store_scan_result(scan_jobs[ctask].checks[cpos + 1],
                                 cresult.status, cresult.findings, cresult.severity))]
    /\ cpc' = "progress"
    /\ UNCHANGED <<queue, ctask, cpos, completed_checks, cresult>>
    /\ UNCHANGED <<deploy, scan_jobs, now, progHist>>
    /\ UNCHANGED pollVars
    /\ UNCHANGED <<outcomes, faultVars, pureVars>>
    /\ UNCHANGED histVars

\* execute_scan: completed_checks += 1;
\* update_scan_progress(scan_id, int((completed_checks / total_checks) * 100))
TaskProgress ==
    /\ cpc = "progress"
    /\ completed_checks' = completed_checks + 1
    /\ LET progress == Percent(completed_checks', Len(scan_jobs[ctask].checks))
       IN  /\ scan_jobs' = [scan_jobs EXCEPT ![ctask] = update_scan_progress(@, progress)]
           /\ progHist' = [progHist EXCEPT ![ctask] = Append(@, progress)]
    /\ cpos' = AfterCheck(cpos, Len(scan_jobs[ctask].checks), cresult)
    /\ cresult' = NoResult
    /\ cpc' = "loop"
    /\ UNCHANGED <<queue, ctask>>
    /\ UNCHANGED <<deploy, scan_results, now>>
    /\ UNCHANGED pollVars
    /\ UNCHANGED <<outcomes, faultVars, pureVars>>
    /\ UNCHANGED histVars

\* execute_scan: update_scan_status(scan_id, 'completed', datetime.utcnow())
TaskComplete ==
    /\ cpc = "loop"
    /\ cpos = Len(scan_jobs[ctask].checks)
    /\ scan_jobs' = [scan_jobs EXCEPT
           ![ctask] = db_update_scan_status(@, "completed", now[ctask], now[ctask])]
    /\ now' = [now EXCEPT ![ctask] = @ + 1]
    /\ cpc' = "progress100"
    /\ UNCHANGED <<queue, ctask, cpos, completed_checks, cresult>>
    /\ UNCHANGED <<deploy, scan_results, progHist>>
    /\ UNCHANGED pollVars
    /\ UNCHANGED <<outcomes, faultVars, pureVars>>
    /\ UNCHANGED histVars

\* execute_scan: update_scan_progress(scan_id, 100); return; the task is acked
TaskFinalProgress ==
    /\ cpc = "progress100"
    /\ scan_jobs' = [scan_jobs EXCEPT ![ctask] = update_scan_progress(@, 100)]
    /\ cpc' = "idle"
    /\ ctask' = NoJob
    /\ cpos' = 0
    /\ completed_checks' = 0
    /\ UNCHANGED <<queue, cresult>>
    /\ UNCHANGED <<deploy, scan_results, now, progHist>>
    /\ UNCHANGED pollVars
    /\ UNCHANGED <<outcomes, faultVars, pureVars>>
    /\ UNCHANGED histVars

\* ------------------------------------------------ errors, stops, crashes
\* a handler that ends the loop on any exception
main_except_break(exc) == "stopped"

\* a handler that treats an exception like an empty queue
main_except_idle(exc) == IF exc = "KeyboardInterrupt" THEN "stopped" ELSE "sleep5"

\* main: `except KeyboardInterrupt: break`, `except Exception: time.sleep(10)`
main_except(exc) == IF exc = "KeyboardInterrupt" THEN "stopped" ELSE "sleep10"

\* a connection whose end leaves its row locks in place
ReleaseLocks_keep(locks, w) == locks

\* rows whose lock belongs to the connection of worker w are unlocked
ReleaseLocks(locks, w) == [j \in Jobs |-> IF locks[j] = w THEN NoWorker ELSE locks[j]]

\* main: get_db_connection() or get_queued_scans(conn) raises
ClaimError(w) ==
    /\ deploy = "poll"
    /\ pc[w] = "poll"
    /\ faults < MaxFaults
    /\ faults' = faults + 1
    /\ pc' = [pc EXCEPT ![w] = main_except("Exception")]
    /\ UNCHANGED <<deploy, scan_jobs, scan_results, lock, now, scan, idx, result,
                   handed, progHist>>
    /\ UNCHANGED celeryVars
    /\ UNCHANGED <<outcomes, sigint, lostRun, pureVars>>
    /\ UNCHANGED histVars

\* process_scan: the target query or the first update raises before the
\* commit; the transaction stays open on the abandoned connection
StartScanError(w) ==
    /\ pc[w] = "process"
    /\ faults < MaxFaults
    /\ faults' = faults + 1
    /\ pc' = [pc EXCEPT ![w] = main_except("Exception")]
    /\ scan' = [scan EXCEPT ![w] = NoJob]
    /\ UNCHANGED <<deploy, scan_jobs, scan_results, lock, now, idx, result,
                   handed, progHist>>
    /\ UNCHANGED celeryVars
    /\ UNCHANGED <<outcomes, sigint, lostRun, pureVars>>
    /\ UNCHANGED histVars

\* process_scan: save_scan_result or update_scan_status raises inside or
\* after the loop; the exception reaches main
WriteError(w) ==
    /\ \/ pc[w] \in {"save", "progress"}
       \/ pc[w] = "loop" /\ idx[w] = Len(scan_jobs[scan[w]].checks)
    /\ faults < MaxFaults
    /\ faults' = faults + 1
    /\ pc' = [pc EXCEPT ![w] = main_except("Exception")]
    /\ scan' = [scan EXCEPT ![w] = NoJob]
    /\ idx' = [idx EXCEPT ![w] = 0]
    /\ result' = [result EXCEPT ![w] = NoResult]
    /\ UNCHANGED <<deploy, scan_jobs, scan_results, lock, now, handed, progHist>>
    /\ UNCHANGED celeryVars
    /\ UNCHANGED <<outcomes, sigint, lostRun, pureVars>>
    /\ UNCHANGED histVars

\* main: time.sleep(10) is over; conn is rebound at the top of the loop and
\* the abandoned connection is closed, which rolls its transaction back
SleepAfterError(w) ==
    /\ pc[w] = "sleep10"
    /\ pc' = [pc EXCEPT ![w] = "poll"]
    /\ lock' = ReleaseLocks(lock, w)
    /\ UNCHANGED <<deploy, scan_jobs, scan_results, now, scan, idx, result,
                   handed, progHist>>
    /\ UNCHANGED celeryVars
    /\ UNCHANGED <<outcomes, faultVars, pureVars>>
    /\ UNCHANGED histVars

\* main: KeyboardInterrupt is raised wherever the worker is; the process ends
Interrupt(w) ==
    /\ deploy = "poll"
    /\ pc[w] \notin {"stopped", "crashed"}
    /\ faults < MaxFaults
    /\ faults' = faults + 1
    /\ pc' = [pc EXCEPT ![w] = main_except("KeyboardInterrupt")]
    /\ sigint' = [sigint EXCEPT ![w] = TRUE]
    /\ lock' = ReleaseLocks(lock, w)
    /\ scan' = [scan EXCEPT ![w] = NoJob]
    /\ idx' = [idx EXCEPT ![w] = 0]
    /\ result' = [result EXCEPT ![w] = NoResult]
    /\ UNCHANGED <<deploy, scan_jobs, scan_results, now, handed, progHist>>
    /\ UNCHANGED celeryVars
    /\ UNCHANGED <<outcomes, lostRun, pureVars>>
    /\ UNCHANGED histVars

\* the polling worker process is killed
Crash(w) ==
    /\ deploy = "poll"
    /\ pc[w] \notin {"stopped", "crashed"}
    /\ faults < MaxFaults
    /\ faults' = faults + 1
    /\ pc' = [pc EXCEPT ![w] = "crashed"]
    /\ lostRun' = [j \in Jobs |->
           lostRun[j] \/ (scan[w] = j /\ scan_jobs[j].status = "running")]
    /\ lock' = ReleaseLocks(lock, w)
    /\ scan' = [scan EXCEPT ![w] = NoJob]
    /\ idx' = [idx EXCEPT ![w] = 0]
    /\ result' = [result EXCEPT ![w] = NoResult]
    /\ UNCHANGED <<deploy, scan_jobs, scan_results, now, handed, progHist>>
    /\ UNCHANGED celeryVars
    /\ UNCHANGED <<outcomes, sigint, pureVars>>
    /\ UNCHANGED histVars

\* execute_scan: store_scan_result raises. Raised in the try block it is
\* caught by the inner handler, which stores a 'failed' result instead;
\* raised in that handler it reaches the outer handler
TaskStoreError ==
    /\ cpc = "store"
    /\ faults < MaxFaults
    /\ faults' = faults + 1
    /\ IF cresult.status = "success"
       THEN /\ cresult' = [status |-> "failed", findings |-> 0, severity |-> "info"]
            /\ cpc' = cpc
       ELSE /\ cpc' = "except"
            /\ cresult' = cresult
    /\ UNCHANGED <<queue, ctask, cpos, completed_checks>>
    /\ UNCHANGED <<deploy, scan_jobs, scan_results, now, progHist>>
    /\ UNCHANGED pollVars
    /\ UNCHANGED <<outcomes, sigint, lostRun, pureVars>>
    /\ UNCHANGED histVars

\* database.update_scan_progress fails: the error is logged, not raised
TaskProgressError ==
    /\ cpc \in {"progress0", "progress", "progress100"}
    /\ faults < MaxFaults
    /\ faults' = faults + 1
    /\ IF cpc = "progress0"
       THEN /\ completed_checks' = 0 /\ cpos' = 0 /\ cpc' = "loop"
            /\ UNCHANGED <<ctask, cresult>>
       ELSE IF cpc = "progress"
       THEN /\ completed_checks' = completed_checks + 1
            /\ cpos' = AfterCheck(cpos, Len(scan_jobs[ctask].checks), cresult)
            /\ cresult' = NoResult
            /\ cpc' = "loop"
            /\ ctask' = ctask
       ELSE /\ cpc' = "idle" /\ ctask' = NoJob /\ cpos' = 0 /\ completed_checks' = 0
            /\ cresult' = cresult
    /\ UNCHANGED queue
    /\ UNCHANGED <<deploy, scan_jobs, scan_results, now, progHist>>
    /\ UNCHANGED pollVars
    /\ UNCHANGED <<outcomes, sigint, lostRun, pureVars>>
    /\ UNCHANGED histVars

\* execute_scan: database.update_scan_status raises ('running' at the start
\* or 'completed' at the end) and reaches the outer handler
TaskStatusError ==
    /\ \/ cpc = "start"
       \/ cpc = "loop" /\ cpos = Len(scan_jobs[ctask].checks)
    /\ faults < MaxFaults
    /\ faults' = faults + 1
    /\ cpc' = "except"
    /\ UNCHANGED <<queue, ctask, cpos, completed_checks, cresult>>
    /\ UNCHANGED <<deploy, scan_jobs, scan_results, now, progHist>>
    /\ UNCHANGED pollVars
    /\ UNCHANGED <<outcomes, sigint, lostRun, pureVars>>
    /\ UNCHANGED histVars

\* execute_scan, outer handler: update_scan_status(scan_id, 'failed'); raise;
\* ScanTask.on_failure writes 'failed' again; the task ends
TaskExcept ==
    /\ cpc = "except"
    /\ scan_jobs' = [scan_jobs EXCEPT
           ![ctask] = db_update_scan_status(@, "failed", 0, now[ctask])]
    /\ now' = [now EXCEPT ![ctask] = @ + 1]
    /\ cpc' = "idle"
    /\ ctask' = NoJob
    /\ cpos' = 0
    /\ completed_checks' = 0
    /\ cresult' = NoResult
    /\ UNCHANGED queue
    /\ UNCHANGED <<deploy, scan_results, progHist>>
    /\ UNCHANGED pollVars
    /\ UNCHANGED <<outcomes, faultVars, pureVars>>
    /\ UNCHANGED histVars

\* the writes of the outer handler and of on_failure raise too
TaskExceptError ==
    /\ cpc = "except"
    /\ cpc' = "idle"
    /\ ctask' = NoJob
    /\ cpos' = 0
    /\ completed_checks' = 0
    /\ cresult' = NoResult
    /\ UNCHANGED queue
    /\ UNCHANGED <<deploy, scan_jobs, scan_results, now, progHist>>
    /\ UNCHANGED pollVars
    /\ UNCHANGED <<outcomes, faultVars, pureVars>>
    /\ UNCHANGED histVars

\* celery_app: task_acks_late and task_reject_on_worker_lost: when the
\* process running the task dies its message goes back to the queue
WorkerLostRequeues == TRUE

\* the celery worker process running the task is killed
TaskWorkerLost ==
    /\ cpc # "idle"
    /\ faults < MaxFaults
    /\ faults' = faults + 1
    /\ queue' = IF WorkerLostRequeues THEN queue \cup {ctask} ELSE queue
    /\ lostRun' = [lostRun EXCEPT ![ctask] = @ \/ scan_jobs[ctask].status = "running"]
    /\ cpc' = "idle"
    /\ ctask' = NoJob
    /\ cpos' = 0
    /\ completed_checks' = 0
    /\ cresult' = NoResult
    /\ UNCHANGED <<deploy, scan_jobs, scan_results, now, progHist>>
    /\ UNCHANGED pollVars
    /\ UNCHANGED <<outcomes, sigint, pureVars>>
    /\ UNCHANGED histVars

\* ------------------------------------------------------ the six adapters
\* what the external tool of an adapter does and what its output shows:
\*   tool   "ok" exit code 0, "rc" non-zero exit code (for openssl: with
\*          empty output), "timeout" subprocess.TimeoutExpired, "missing"
\*          FileNotFoundError, "garbage" output that does not parse
\*   n      open ports / missing headers / DNS records / paths found
\*   verify, selfsigned   strings found in the openssl output
\*   axfr   the zone transfer succeeded
Env(tool, n, verify, selfsigned, axfr) ==
    [tool |-> tool, n |-> n, verify |-> verify, selfsigned |-> selfsigned,
     axfr |-> axfr]

NumSecurityHeaders == 7

ToolFailures == {"rc", "timeout", "missing"}

ping_check(e) ==
    IF e.tool = "ok" THEN Returned("success", 0, "info")
    ELSE IF e.tool = "rc" THEN Returned("success", 1, "high")
    ELSE IF e.tool = "timeout" THEN Returned("failed", 1, "medium")
    ELSE Returned("failed", 0, "info")

port_scan_check(e) ==
    IF e.tool # "ok" THEN Returned("failed", 0, "info")
    ELSE Returned("success", e.n,
                  IF e.n > 20 THEN "high" ELSE IF e.n > 10 THEN "medium" ELSE "low")

headers_check(e) ==
    IF e.tool # "ok" THEN Returned("failed", 0, "info")
    ELSE Returned("success", e.n,
                  IF e.n >= 5 THEN "high"
                  ELSE IF e.n >= 3 THEN "medium"
                  ELSE IF e.n > 0 THEN "low" ELSE "info")

ssl_check(e) ==
    IF e.tool = "rc" THEN Returned("failed", 1, "high")
    ELSE IF e.tool # "ok" THEN Returned("failed", 0, "info")
    ELSE LET findings == (IF e.verify THEN 1 ELSE 0) + (IF e.selfsigned THEN 1 ELSE 0)
             sev1 == IF e.verify THEN "high" ELSE "info"
             sev2 == IF e.selfsigned THEN "medium" ELSE sev1
         IN  Returned("success", findings, sev2)

dns_check(e) ==
    LET records == IF e.tool = "ok" THEN e.n ELSE 0
        zone_transfer_vulnerable == e.tool = "ok" /\ e.axfr
        findings_count == records + (IF zone_transfer_vulnerable THEN 1 ELSE 0)
    IN  Returned("success", findings_count,
                 IF zone_transfer_vulnerable THEN "high" ELSE "info")

bruteforce_check(e) ==
    IF e.tool \in {"timeout", "missing"} THEN Returned("failed", 0, "info")
    ELSE Returned("success", e.n,
                  IF e.n > 20 THEN "medium" ELSE IF e.n > 10 THEN "low" ELSE "info")

Adapters == {"ping", "portscan", "headers", "ssl", "dns", "bruteforce"}

check_map(a, e) ==
    CASE a = "ping" -> ping_check(e)
      [] a = "portscan" -> port_scan_check(e)
      [] a = "headers" -> headers_check(e)
      [] a = "ssl" -> ssl_check(e)
      [] a = "dns" -> dns_check(e)
      [] a = "bruteforce" -> bruteforce_check(e)

\* the situations each adapter can meet
Envs(a) ==
    LET fail(tools) == {Env(t, 0, FALSE, FALSE, FALSE) : t \in tools}
        count(tools, max, flags) ==
            {Env(t, n, FALSE, FALSE, x) : t \in tools, n \in 0..max, x \in flags}
    IN  CASE a = "ping" -> fail(ToolFailures \cup {"ok"})
          [] a = "portscan" ->
                count({"ok"}, MaxFindings, {FALSE}) \cup fail(ToolFailures \cup {"garbage"})
          [] a = "headers" ->
                count({"ok"}, NumSecurityHeaders, {FALSE}) \cup fail(ToolFailures)
          [] a = "ssl" ->
                {Env("ok", 0, v, ss, FALSE) : v \in BOOLEAN, ss \in BOOLEAN}
                    \cup fail(ToolFailures)
          [] a = "dns" -> count({"ok"}, MaxFindings, BOOLEAN) \cup fail(ToolFailures)
          [] a = "bruteforce" ->
                count({"ok", "rc"}, MaxFindings, {FALSE}) \cup fail({"timeout", "missing"})

\* execute_check: result = check_func(target, {})
RunAdapter ==
    \E a \in Adapters : \E e \in Envs(a) :
        /\ prev' = cur
        /\ cur' = [adapter |-> a, env |-> e, out |-> check_map(a, e)]
        /\ UNCHANGED <<deploy, scan_jobs, scan_results, now, progHist, pct>>
        /\ UNCHANGED pollVars
        /\ UNCHANGED celeryVars
        /\ UNCHANGED <<outcomes, faultVars>>
        /\ UNCHANGED histVars

\* process_scan: total_checks = len(checks); progress 0 is written first
StartProgress ==
    \E total_checks \in 1..MaxTotal :
        /\ pct.completed = pct.total
        /\ pct' = [completed |-> 0, total |-> total_checks, progress |-> 0]
        /\ UNCHANGED <<deploy, scan_jobs, scan_results, now, progHist, cur, prev>>
        /\ UNCHANGED pollVars
        /\ UNCHANGED celeryVars
        /\ UNCHANGED <<outcomes, faultVars>>
        /\ UNCHANGED histVars

\* process_scan: progress = int(((i + 1) / total_checks) * 100)
StepProgress ==
    /\ pct.completed < pct.total
    /\ pct' = [pct EXCEPT !.completed = @ + 1,
                          !.progress = Percent(pct.completed + 1, pct.total)]
    /\ UNCHANGED <<deploy, scan_jobs, scan_results, now, progHist, cur, prev>>
    /\ UNCHANGED pollVars
    /\ UNCHANGED celeryVars
    /\ UNCHANGED <<outcomes, faultVars>>
    /\ UNCHANGED histVars

\* ------------------------------------------------------------ Init / Next
NewRow(created, target, checks) ==
    [status |-> "queued", progress |-> 0, started_at |-> 0, completed_at |-> 0,
     created_at |-> created, target |-> target, checks |-> checks]

Init ==
    /\ deploy \in {"poll", "celery"}
    /\ \E tg \in [Jobs -> {"resolved", "missing"}], cl \in [Jobs -> CheckLists] :
         /\ deploy = "celery" => \A j \in Jobs : tg[j] = "resolved"
         /\ scan_jobs = [j \in Jobs |-> NewRow(NumJobs + 1 - j, tg[j], cl[j])]
    /\ scan_results = [j \in Jobs |-> <<>>]
    /\ lock = [j \in Jobs |-> NoWorker]
    /\ now = [j \in Jobs |-> 1]
    /\ pc = [w \in Workers |-> "poll"]
    /\ scan = [w \in Workers |-> NoJob]
    /\ idx = [w \in Workers |-> 0]
    /\ result = [w \in Workers |-> NoResult]
    /\ queue = IF deploy = "celery" THEN Jobs ELSE {}
    /\ cpc = "idle"
    /\ ctask = NoJob
    /\ cpos = 0
    /\ completed_checks = 0
    /\ cresult = NoResult
    /\ handed = [j \in Jobs |-> 0]
    /\ progHist = [j \in Jobs |-> <<>>]
    /\ outcomes = [j \in Jobs |-> <<>>]
    /\ sigint = [w \in Workers |-> FALSE]
    /\ lostRun = [j \in Jobs |-> FALSE]
    /\ faults = 0
    /\ cur = NoCall
    /\ prev = NoCall
    /\ lastJob = [w \in Workers |-> NoJob]
    /\ pct = [completed |-> 0, total |-> 0, progress |-> 0]

Next ==
    \/ \E w \in Workers : GetQueuedScans(w)
    \/ \E w \in Workers : Sleep(w)
    \/ \E w \in Workers : StartScan(w)
    \/ \E w \in Workers : ExecuteCheck(w)
    \/ \E w \in Workers : SaveScanResult(w)
    \/ \E w \in Workers : UpdateProgress(w)
    \/ \E w \in Workers : CompleteScan(w)
    \/ ReceiveTask
    \/ TaskStart
    \/ TaskProgressZero
    \/ TaskSkipUnknown
    \/ TaskRunCheck
    \/ TaskStoreResult
    \/ TaskProgress
    \/ TaskComplete
    \/ TaskFinalProgress

Spec == Init /\ [][Next]_vars

\* the same workers with store errors, stop signals and process crashes
NextFault ==
    \/ Next
    \/ \E w \in Workers : ClaimError(w)
    \/ \E w \in Workers : StartScanError(w)
    \/ \E w \in Workers : WriteError(w)
    \/ \E w \in Workers : SleepAfterError(w)
    \/ \E w \in Workers : Interrupt(w)
    \/ \E w \in Workers : Crash(w)
    \/ TaskStoreError
    \/ TaskProgressError
    \/ TaskStatusError
    \/ TaskExcept
    \/ TaskExceptError
    \/ TaskWorkerLost

\* main of worker w: one step of its `while True` loop
Worker(w) ==
    \/ GetQueuedScans(w)
    \/ Sleep(w)
    \/ StartScan(w)
    \/ ExecuteCheck(w)
    \/ SaveScanResult(w)
    \/ UpdateProgress(w)
    \/ CompleteScan(w)

\* every polling worker process keeps being scheduled
SpecFair == Spec /\ \A w \in Workers : WF_vars(Worker(w))

SpecFault == Init /\ [][NextFault]_vars

\* time.sleep(10) returns: a worker that pauses after an error goes on
SpecFaultFair == SpecFault /\ \A w \in Workers : WF_vars(SleepAfterError(w))

\* one idle deployment in which only the adapters are called
InitIdle ==
    /\ Init
    /\ deploy = "poll"
    /\ \A j \in Jobs : scan_jobs[j].target = "resolved" /\ scan_jobs[j].checks = <<"ping">>

NextAdapters == RunAdapter

SpecAdapters == InitIdle /\ [][NextAdapters]_vars

\* the progress arithmetic of one job after another
NextProgress == StartProgress \/ StepProgress

SpecProgress == InitIdle /\ [][NextProgress]_vars

\* ----------------------------------------------------------- properties
Status(j) == scan_jobs[j].status
Progress(j) == scan_jobs[j].progress
Checks(j) == scan_jobs[j].checks
Terminal == {"completed", "failed"}
Min(a, b) == IF a <= b THEN a ELSE b
Holders(j) == { w \in Workers : scan[w] = j }
Queued == { j \in Jobs : Status(j) = "queued" }

\* C1: with any number of workers polling concurrently, a job is held by at
\* most one worker at a time and get_queued_scans returns it at most once.
C1_AtMostOneWorker ==
    \A j \in Jobs : Cardinality(Holders(j)) <= 1 /\ handed[j] <= 1

\* two workers are inside the claim window (selected, not yet committed) at once
C1_Witness ==
    \E w1, w2 \in Workers :
        /\ w1 # w2
        /\ pc[w1] = "process" /\ pc[w2] = "process"
        /\ \A j \in Jobs : handed[j] = 1

\* C2: in a round in which every job is still queued and there are no more
\* workers than jobs, no worker's claim returned none and the workers that
\* claimed hold that many distinct jobs; and a claim returns none only when
\* every queued job is held by another worker.
C2_Round ==
    (deploy = "poll" /\ NumWorkers <= NumJobs /\ Queued = Jobs) =>
        /\ \A w \in Workers : pc[w] \in {"poll", "process"}
        /\ Cardinality({ scan[w] : w \in { v \in Workers : pc[v] = "process" } })
             = Cardinality({ w \in Workers : pc[w] = "process" })
C2_NoneOnlyWhenAllHeld ==
    \A w \in Workers :
        (pc[w] = "poll" /\ pc'[w] = "sleep5") =>
            \A j \in Queued : lock[j] \notin {NoWorker, w}
C2_EveryClaimSucceeds == [](C2_Round) /\ [][C2_NoneOnlyWhenAllHeld]_vars

\* the round is over: min(N, M) workers hold a job, every job still queued
C2_Witness ==
    /\ Queued = Jobs
    /\ Cardinality({ w \in Workers : pc[w] = "process" }) = Min(NumWorkers, NumJobs)

\* C3 as stated: the operation that returns the job to the worker has also
\* flipped it to running and stamped its start time.
C3_Original ==
    \A w \in Workers :
        scan[w] # NoJob =>
            /\ Status(scan[w]) = "running"
            /\ scan_jobs[scan[w]].started_at # 0

\* C3 amended: get_queued_scans returns the job still queued but row-locked,
\* and while it is locked no other claim returns it; the first update of
\* process_scan, in the same transaction, flips it to running with a start
\* time (or to failed) and releases the lock.
C3_LockThenFlip ==
    \A w \in Workers :
        scan[w] # NoJob =>
            IF pc[w] = "process"
            THEN /\ Status(scan[w]) = "queued"
                 /\ lock[scan[w]] = w
                 /\ get_queued_scans(scan_jobs, lock) # scan[w]
            ELSE /\ Status(scan[w]) = "running"
                 /\ scan_jobs[scan[w]].started_at # 0
                 /\ lock[scan[w]] = NoWorker

\* a second caller polled while the first held the only queued job
C3_Witness ==
    \E w1, w2 \in Workers :
        /\ pc[w1] = "process"
        /\ pc[w2] = "sleep5"
        /\ Status(scan[w1]) = "queued"

\* C4: the job a claim returns was queued, and when no row is locked by
\* another claimer it is the queued job with the oldest creation time.
C4_Step ==
    \A w \in Workers :
        (pc[w] = "poll" /\ pc'[w] = "process") =>
            /\ Status(scan'[w]) = "queued"
            /\ (\A k \in Jobs : lock[k] = NoWorker) =>
                   \A k \in Queued :
                       scan_jobs[scan'[w]].created_at <= scan_jobs[k].created_at
C4_Fifo == [][C4_Step]_vars

\* a worker holds a job while a younger job is queued and unlocked
C4_Witness ==
    \E w \in Workers : \E k \in Queued :
        /\ pc[w] = "process"
        /\ lock[k] = NoWorker
        /\ \A v \in Workers : v # w => scan[v] = NoJob
        /\ scan_jobs[scan[w]].created_at < scan_jobs[k].created_at

\* C5 as stated: the status moves only queued -> running -> completed/failed
\* or queued -> failed for an unresolved target, and a job in a terminal
\* status has its status and progress left unchanged.
C5_Step ==
    \A j \in Jobs :
        /\ Status(j) # scan_jobs'[j].status =>
              \/ Status(j) = "queued" /\ scan_jobs'[j].status = "running"
              \/ Status(j) = "running" /\ scan_jobs'[j].status \in Terminal
              \/ /\ Status(j) = "queued" /\ scan_jobs'[j].status = "failed"
                 /\ scan_jobs[j].target = "missing"
        /\ Status(j) \in Terminal =>
              /\ scan_jobs'[j].status = Status(j)
              /\ scan_jobs'[j].progress = Progress(j)
C5_TerminalIsFinal == [][C5_Step]_vars

\* C6 as stated: progress is 100 only when the status is completed.
C6_Original ==
    \A j \in Jobs : Progress(j) = 100 => Status(j) = "completed"

\* C6 amended: progress never decreases, and it is 100 only when the status
\* is completed or the result of every check of the list has been stored
\* (the write after the last check precedes the completed transition);
\* it is never 100 while the job is queued.
C6_Inv ==
    \A j \in Jobs :
        Progress(j) = 100 =>
            \/ Status(j) = "completed"
            \/ Status(j) # "queued" /\ Len(scan_results[j]) >= Len(Checks(j))
C6_Mono == \A j \in Jobs : scan_jobs'[j].progress >= Progress(j)
C6_Progress == [](C6_Inv) /\ [][C6_Mono]_vars

\* progress 100 is stored while the job is still running
C6_Witness ==
    \E j \in Jobs :
        /\ Progress(j) = 100
        /\ Status(j) = "running"
        /\ Len(scan_results[j]) = Len(Checks(j))

\* C7 as stated: a completed job with K checks has exactly K CheckResults
\* and K progress values written after its checks, non-decreasing and
\* ending at 100.
NonDecreasing(seq) == \A i \in 1..(Len(seq) - 1) : seq[i] <= seq[i + 1]
C7_KResults ==
    \A j \in Jobs :
        Status(j) = "completed" =>
            /\ Len(scan_results[j]) = Len(Checks(j))
            /\ Len(progHist[j]) = Len(Checks(j))
            /\ NonDecreasing(progHist[j])
            /\ progHist[j][Len(progHist[j])] = 100

\* C8 as stated: every unresolvable name of a completed job's list has its
\* own CheckResult, at its position, with status error, findings 0 and
\* severity info, and a progress value was written for it.
C8_UnknownRecorded ==
    \A j \in Jobs :
        Status(j) = "completed" =>
            \A i \in 1..Len(Checks(j)) :
                Checks(j)[i] \notin KnownChecks =>
                    /\ Len(scan_results[j]) = Len(Checks(j))
                    /\ Len(progHist[j]) = Len(Checks(j))
                    /\ scan_results[j][i] =
                           [check_type |-> Checks(j)[i], status |-> "error",
                            findings |-> 0, severity |-> "info"]

\* C9: a job whose target is not found is only ever queued or failed, never
\* gets a start time, a progress write or a CheckResult, and the worker
\* that claimed it never enters the check loop.
C9_UnresolvedFailsDirectly ==
    \A j \in Jobs :
        scan_jobs[j].target = "missing" =>
            /\ Status(j) \in {"queued", "failed"}
            /\ scan_jobs[j].started_at = 0
            /\ scan_results[j] = <<>>
            /\ progHist[j] = <<>>
            /\ \A w \in Workers : scan[w] = j => pc[w] = "process"

\* a job with a missing target has been claimed and is failed
C9_Witness ==
    \E j \in Jobs :
        /\ scan_jobs[j].target = "missing"
        /\ Status(j) = "failed"
        /\ handed[j] = 1

\* C10: whatever the result of the check at position i, the executor's next
\* position is i + 1, and it leaves the loop only at the end of the list.
C10_Step ==
    /\ \A w \in Workers :
          /\ pc[w] = "progress" =>
                \/ pc'[w] = "progress" /\ idx'[w] = idx[w]
                \/ pc'[w] = "loop" /\ idx'[w] = idx[w] + 1
          /\ (pc[w] \in {"loop", "save"} /\ idx[w] < Len(Checks(scan[w]))) =>
                /\ pc'[w] \in {"loop", "save", "progress"}
                /\ idx'[w] = idx[w]
    /\ cpc = "progress" =>
          \/ cpc' = "progress" /\ cpos' = cpos
          \/ cpc' = "loop" /\ cpos' = cpos + 1
    /\ (cpc \in {"loop", "store"} /\ cpos < Len(Checks(ctask))) =>
          /\ cpc' \in {"loop", "store", "progress"}
          /\ cpos' \in {cpos, cpos + 1}
C10_NeverAborts == [][C10_Step]_vars

\* the first check failed or errored and the second check is being run
C10_Witness ==
    \/ \E w \in Workers :
          /\ pc[w] = "save" /\ idx[w] = 1
          /\ scan_results[scan[w]][1].status \in {"failed", "error"}
    \/ /\ cpc = "store" /\ cpos = 1
       /\ Len(scan_results[ctask]) = 1
       /\ scan_results[ctask][1].status = "failed"

\* ---------------------------------------------------------------- C11
\* C11: an error raised by the write of a CheckResult or of a progress value
\* does not abort the check sequence: the executor that was about to write
\* (and whose process is neither stopped nor killed by the step) is still on
\* the same job afterwards, in its check loop.
C11_Step ==
    /\ \A w \in Workers :
          (pc[w] \in {"save", "progress"} /\ pc'[w] \notin {"stopped", "crashed"})
              => /\ scan'[w] = scan[w]
                 /\ pc'[w] \in {"save", "progress", "loop"}
    /\ (cpc \in {"store", "progress"} /\ lostRun' = lostRun /\ faults' > faults)
              => /\ ctask' = ctask
                 /\ cpc' \in {"store", "progress", "loop"}

C11_WriteErrorDoesNotAbort == [][C11_Step]_vars

\* ---------------------------------------------------------------- C12
\* C12: once the process working on a running job has died, the job stays
\* running and keeps exactly the CheckResults it had: no later step of any
\* worker or of a redelivered task changes its status or its results.
C12_Step ==
    \A j \in Jobs :
        lostRun[j] => /\ scan_jobs'[j].status = "running"
                      /\ scan_results'[j] = scan_results[j]

C12_CrashedJobStaysRunning == [][C12_Step]_vars

\* ---------------------------------------------------------------- C13
\* C13: when the tool behind an adapter times out or is missing, the check
\* does not raise and its result has status failed or error.
C13_FailureContained ==
    (cur.adapter # "none" /\ cur.env.tool \in {"timeout", "missing"})
        => /\ ~cur.out.raised
           /\ cur.out.status \in {"failed", "error"}

\* ---------------------------------------------------------------- C14
\* an internal failure of the adapter: tool absent, timeout, output that does
\* not parse, or a tool that could not reach the target (exit code of nmap,
\* curl and openssl)
InternalFailure(call) ==
    \/ call.env.tool \in {"timeout", "missing", "garbage"}
    \/ call.adapter \in {"ssl", "portscan", "headers"} /\ call.env.tool = "rc"

\* C14: every internal failure of an adapter gives a result with status
\* failed or error, findings 0 and severity info.
C14_FailureIsZeroInfo ==
    (cur.adapter # "none" /\ InternalFailure(cur))
        => /\ cur.out.status \in {"failed", "error"}
           /\ cur.out.findings = 0
           /\ cur.out.severity = "info"

\* ---------------------------------------------------------------- C15
SevRank(sev) ==
    CASE sev = "info" -> 0 [] sev = "low" -> 1 [] sev = "medium" -> 2 [] sev = "high" -> 3

\* e2 shows every issue that e1 shows
Subsumes(e1, e2) ==
    /\ e1.n <= e2.n
    /\ e1.verify => e2.verify
    /\ e1.selfsigned => e2.selfsigned
    /\ e1.axfr => e2.axfr

\* C15: of two successful calls of the same adapter, the one that surfaces
\* the same issues gives the same result, and the one that surfaces at least
\* the issues of the other gives a severity that is not lower.
C15_SeverityMonotonic ==
    (/\ prev.adapter # "none"
     /\ prev.adapter = cur.adapter
     /\ prev.env.tool = cur.env.tool
     /\ prev.out.status = "success"
     /\ cur.out.status = "success"
     /\ Subsumes(prev.env, cur.env))
        => /\ SevRank(prev.out.severity) <= SevRank(cur.out.severity)
           /\ prev.env = cur.env => prev.out = cur.out

\* ---------------------------------------------------------------- C17
\* round(num / den) as Python computes it: to the nearest integer, a tie to
\* the even one
Round(num, den) ==
    LET q == num \div den
        r == num % den
    IN  IF 2 * r < den THEN q
        ELSE IF 2 * r > den THEN q + 1
        ELSE IF q % 2 = 0 THEN q ELSE q + 1

\* C17: after check k of K the progress written is round(100 * k / K).
C17_ProgressIsRounded ==
    pct.completed >= 1 => pct.progress = Round(100 * pct.completed, pct.total)

\* ---------------------------------------------------------------- C16
\* C16: a polling worker leaves its loop only when it receives the stop
\* signal; an exception of the claim or of the execution of a job makes it
\* pause, the only thing it does after the pause is to poll, and it does.
C16_Step ==
    \A w \in Workers :
        /\ (pc'[w] = "stopped" /\ pc[w] # "stopped") => (sigint'[w] /\ ~sigint[w])
        /\ (faults' > faults /\ pc'[w] # pc[w] /\ ~sigint'[w] /\ pc'[w] # "crashed")
               => pc'[w] = "sleep10"
        /\ (pc[w] = "sleep10" /\ pc'[w] # "sleep10")
               => pc'[w] \in {"poll", "stopped", "crashed"}

C16_OnlyStopSignalStops ==
    /\ [][C16_Step]_vars
    /\ \A w \in Workers :
           (pc[w] = "sleep10") ~> (pc[w] \in {"poll", "stopped", "crashed"})

\* after an exception in the middle of a job every worker polls again
C16_Witness ==
    /\ deploy = "poll"
    /\ faults >= 1
    /\ \A w \in Workers : pc[w] = "poll" /\ ~sigint[w]
    /\ \E j \in Jobs : scan_jobs[j].status = "running" /\ Len(scan_results[j]) >= 1

\* ---------------------------------------------------------------- C18
\* C18 (polling worker, with write errors, a stop signal or a process kill at
\* any point): the stored CheckResults of a job are those of a prefix of its
\* check list, in list order, each one the result of the check executed at
\* that position; at most the check executed last is not stored yet; and no
\* progress value is written for a check whose result is not stored.
C18_DurablePrefix ==
    deploy = "poll" =>
        \A j \in Jobs :
            LET n == Len(scan_results[j]) IN
            /\ n <= Len(scan_jobs[j].checks)
            /\ n <= Len(outcomes[j])
            /\ Len(outcomes[j]) <= n + 1
            /\ Len(progHist[j]) <= n
            /\ \A i \in 1..n :
                  scan_results[j][i] =
                      save_scan_result(scan_jobs[j].checks[i],
                          execute_check(scan_jobs[j].checks[i],
                              IF outcomes[j][i] = NotCalled THEN Raised ELSE outcomes[j][i]))

\* the worker process was killed after the first result of a job with two
\* different check names was stored and before the second one was
C18_Witness ==
    /\ deploy = "poll"
    /\ \E j \in Jobs :
          /\ lostRun[j]
          /\ Len(scan_results[j]) = 1
          /\ Len(scan_jobs[j].checks) = 2
          /\ scan_jobs[j].checks[1] # scan_jobs[j].checks[2]
          /\ Len(outcomes[j]) = 2

\* ---------------------------------------------------------------- C19
\* the execution status of a check: what the adapter returned, error when it
\* raised or when no adapter has the name
ExecutionStatus(o) ==
    IF o = NotCalled \/ o.raised THEN "error" ELSE o.status

\* the checks of job j that have a stored result, in order: all of them in
\* the polling worker, those with a known name in the task
Recorded(j) ==
    IF deploy = "poll" THEN outcomes[j]
    ELSE SelectSeq(outcomes[j], LAMBDA o : o # NotCalled)

\* C19: the status stored with a CheckResult is the execution status of the
\* check at that position.
C19_StoredStatusIsExecutionStatus ==
    \A j \in Jobs :
        \A i \in 1..Len(scan_results[j]) :
            i <= Len(Recorded(j)) =>
                scan_results[j][i].status = ExecutionStatus(Recorded(j)[i])

\* ---------------------------------------------------------------- C20
\* what process_scan stores for the check list of job j and the adapter
\* outcomes observed at its positions
PollResults(j) ==
    [i \in 1..Len(scan_jobs[j].checks) |->
        save_scan_result(scan_jobs[j].checks[i],
            execute_check(scan_jobs[j].checks[i],
                IF outcomes[j][i] = NotCalled THEN Raised ELSE outcomes[j][i]))]

\* the progress values process_scan writes after the checks of job j
PollProgress(j) ==
    [i \in 1..Len(scan_jobs[j].checks) |-> Percent(i, Len(scan_jobs[j].checks))]

\* C20: a completed job has, whichever executor ran it, the CheckResults and
\* the progress values that the polling worker produces for its check list
\* and the same adapter outcomes.
C20_SameOutcomeInBothExecutors ==
    \A j \in Jobs :
        scan_jobs[j].status = "completed" =>
            /\ Len(outcomes[j]) = Len(scan_jobs[j].checks)
            /\ scan_results[j] = PollResults(j)
            /\ progHist[j] = PollProgress(j)

\* ---------------------------------------------------------------- C21
\* C21: a polling worker takes the 5 s idle pause only after a claim that
\* returned no row without an error (no queued row is unlocked); a claim
\* that raised is followed by the 10 s pause.
C21_Step ==
    \A w \in Workers :
        /\ (pc[w] = "poll" /\ pc'[w] = "sleep5")
               => /\ faults' = faults
                  /\ \A j \in Jobs :
                         ~(scan_jobs[j].status = "queued" /\ lock[j] = NoWorker)
        /\ (pc[w] = "poll" /\ pc'[w] # "poll" /\ faults' > faults
                /\ pc'[w] \notin {"stopped", "crashed"})
               => pc'[w] = "sleep10"

C21_ClaimErrorIsNotIdle == [][C21_Step]_vars

\* the claim raised while every job was still queued and unlocked
C21_Witness ==
    /\ deploy = "poll"
    /\ \E w \in Workers : pc[w] = "sleep10"
    /\ \A j \in Jobs :
          scan_jobs[j].status = "queued" /\ lock[j] = NoWorker /\ handed[j] = 0

\* ---------------------------------------------------------------- C22
\* C22 (polling workers): every step that changes the status or the progress
\* of a job is taken by a worker that claimed the job and is working on it,
\* and no other worker is working on that job.
C22_Step ==
    deploy = "poll" =>
        \A j \in Jobs :
            (scan_jobs'[j].status # scan_jobs[j].status
                \/ scan_jobs'[j].progress # scan_jobs[j].progress)
            => \E w \in Workers :
                  /\ scan[w] = j
                  /\ lastJob[w] = j
                  /\ pc'[w] # pc[w]
                  /\ \A v \in Workers \ {w} : scan[v] # j /\ pc'[v] = pc[v]

C22_OnlyHolderWrites == [][C22_Step]_vars

\* two workers are in the check loops of two different jobs, each with a
\* progress value written
C22_Witness ==
    \E w \in Workers : \E v \in Workers \ {w} :
        /\ pc[w] = "loop" /\ pc[v] = "loop"
        /\ scan[w] # scan[v]
        /\ Len(progHist[scan[w]]) >= 1
        /\ Len(progHist[scan[v]]) >= 1

\* ---------------------------------------------------------------- C23
\* C23: when a polling worker claims another job, the job it claimed before
\* has status completed or failed.
C23_Step ==
    \A w \in Workers :
        (pc[w] = "poll" /\ pc'[w] = "process" /\ lastJob[w] # NoJob
            /\ scan'[w] # lastJob[w])
            => scan_jobs[lastJob[w]].status \in {"completed", "failed"}

C23_PreviousJobIsTerminal == [][C23_Step]_vars

\* ---------------------------------------------------------------- C24
\* C24: when the stop signal reaches a polling worker that is on a job, every
\* check of that job that was executed has its result stored: the signal
\* never takes effect between the execution of a check and the storing of
\* its result.
C24_Step ==
    \A w \in Workers :
        (deploy = "poll" /\ sigint'[w] /\ ~sigint[w] /\ scan[w] # NoJob)
            => Len(outcomes[scan[w]]) = Len(scan_results[scan[w]])

C24_StopOnlyBetweenChecks == [][C24_Step]_vars

\* ---------------------------------------------------------------- C25
\* C25: a successful port scan with n open ports has severity high for
\* n > 20, medium for n > 10, low for n > 0 and info for n = 0.
C25_PortScanThresholds ==
    (cur.adapter = "portscan" /\ cur.out.status = "success")
        => cur.out.severity =
              (IF cur.out.findings > 20 THEN "high"
               ELSE IF cur.out.findings > 10 THEN "medium"
               ELSE IF cur.out.findings > 0 THEN "low" ELSE "info")

\* ---------------------------------------------------------------- C26
\* C26: a completed job has progress 100 and one CheckResult for each
\* position of its check list, with the name at that position.
C26_CompletedIsWhole ==
    \A j \in Jobs :
        scan_jobs[j].status = "completed" =>
            /\ scan_jobs[j].progress = 100
            /\ Len(scan_results[j]) = Len(scan_jobs[j].checks)
            /\ \A i \in 1..Len(scan_results[j]) :
                  i <= Len(scan_jobs[j].checks) =>
                      scan_results[j][i].check_type = scan_jobs[j].checks[i]

\* ---------------------------------------------------------------- C27
\* C27 (polling worker): once a job has left status queued, no step changes
\* its start time.
C27_Step ==
    deploy = "poll" =>
        \A j \in Jobs :
            scan_jobs[j].status # "queued" =>
                scan_jobs'[j].started_at = scan_jobs[j].started_at

C27_StartTimeStampedOnce == [][C27_Step]_vars

\* ---------------------------------------------------------------- C28
\* C28: a job that a claim selected and whose first status update was not
\* committed, because the worker hit an error, was stopped or was killed, is
\* still queued; its row lock is gone as soon as the worker's process has
\* ended or its pause is over, and the pause does end, so that the claim of
\* another worker can return the job.
C28_Inv ==
    /\ \A j \in Jobs : lock[j] # NoWorker => scan_jobs[j].status = "queued"
    /\ \A w \in Workers :
          pc[w] \in {"poll", "sleep5", "stopped", "crashed"}
              => \A j \in Jobs : lock[j] # w

C28_Step ==
    \A w \in Workers :
        (pc[w] = "process" /\ pc'[w] \in {"sleep10", "stopped", "crashed"})
            => /\ scan_jobs'[scan[w]] = scan_jobs[scan[w]]
               /\ scan_jobs'[scan[w]].status = "queued"

C28_FailedClaimLosesNoJob ==
    /\ [](C28_Inv)
    /\ [][C28_Step]_vars
    /\ \A w \in Workers :
           (pc[w] = "sleep10" /\ \E j \in Jobs : lock[j] = w)
               ~> (\A j \in Jobs : lock[j] # w)

\* a job whose first claim failed before the first update has been claimed
\* again, by another worker
C28_Witness ==
    \E j \in Jobs : \E w \in Workers : \E v \in Workers \ {w} :
        /\ handed[j] = 2
        /\ scan_jobs[j].status = "queued"
        /\ scan[v] = j /\ pc[v] = "process" /\ lock[j] = v
        /\ pc[w] \in {"poll", "sleep5", "crashed"}
        /\ faults >= 1

\* ---------------------------------------------------------------- C29
\* C29 (polling workers, all scheduled fairly, no crash, no error): every
\* job is claimed, exactly once, and reaches a terminal status: completed
\* after exactly one execution of each check of its list when its target
\* resolves, failed without any check otherwise.
C29_Inv ==
    deploy = "poll" =>
        \A j \in Jobs :
            /\ handed[j] <= 1
            /\ Len(outcomes[j]) <= Len(scan_jobs[j].checks)
            /\ scan_jobs[j].status = "completed"
                  => /\ scan_jobs[j].target = "resolved"
                     /\ Len(outcomes[j]) = Len(scan_jobs[j].checks)
            /\ scan_jobs[j].status = "failed"
                  => /\ scan_jobs[j].target = "missing"
                     /\ Len(outcomes[j]) = 0
            /\ (handed[j] = 1 /\ \A w \in Workers : scan[w] # j)
                  => scan_jobs[j].status \in {"completed", "failed"}

C29_EveryJobTerminates ==
    /\ [](C29_Inv)
    /\ \A j \in Jobs :
          /\ (deploy = "poll" /\ scan_jobs[j].status = "queued") ~> (handed[j] = 1)
          /\ (deploy = "poll") ~> (scan_jobs[j].status \in {"completed", "failed"})

\* all jobs are terminal, one completed and one failed
C29_Witness ==
    /\ deploy = "poll"
    /\ \A j \in Jobs : scan_jobs[j].status \in {"completed", "failed"}
    /\ \E j \in Jobs : scan_jobs[j].status = "completed"
                          /\ Len(outcomes[j]) = MaxChecks
    /\ \E j \in Jobs : scan_jobs[j].status = "failed"

====
